---- MODULE Spec2Model ----
(***************************************************************************)
(* Streaming generation with pause / continue / stop in Weave's aichat     *)
(* service.  Two programs consume a stream reader:                         *)
(*   - the command line program services/aichat/cmd/main.go, whose main    *)
(*     goroutine consumes the stream while a listener goroutine reads      *)
(*     commands from stdin and hands them over pauseChan / stopChan;       *)
(*   - chatServiceImpl.ProcessUserInput and ProcessUserInputStream in      *)
(*     services/aichat/internal/service/chat_service_impl.go, which poll   *)
(*     a controlCallback between receives.                                 *)
(* One behaviour follows one question through one of the programs.         *)
(* The module also holds the BM25 calculator of services/aichat/pkg/bm25.go *)
(* with goroutines calling its methods (SpecBM25), the history filter       *)
(* (SpecFilter), chatServiceImpl.Initialize (SpecInitialize), concurrent    *)
(* turns (SpecTurns) and EmailService.VerifyCode (SpecEmail).               *)
(***************************************************************************)
EXTENDS Integers, Sequences, FiniteSets, TLC

VARIABLES
    program,      \* which program runs: "cli", "ProcessUserInput",
                  \* "ProcessUserInputStream", "bm25" (users of a BM25Calculator),
                  \* "FilterRelevantHistory", "Initialize", "turns" (two
                  \* concurrent turns) or "email" (callers of VerifyCode)
    pc,           \* position of the goroutine that consumes the stream
    lpc,          \* position of the command listener goroutine (cli)
    isPaused,     \* main.go: var isPaused bool (guarded by mu)
    doneClosed,   \* main.go: doneChan has been closed
    cmdCount,     \* lines the user has typed during the generation
    delivered,    \* increments streamReader.Recv has returned so far, in order
    srcState,     \* "open", or the terminal signal Recv has reported: "eof" / "err"
    recvHung,     \* the Recv in progress never returns
    fullContent,  \* strings.Builder fullContent
    closeCalls,   \* number of streamReader.Close() calls made
    deferred,     \* number of registered `defer streamReader.Close()`
    chatHistory,  \* the local chatHistory slice
    ctl,          \* what controlCallback reports: [paused, stopped]
    cache,        \* history stored by chatCache for userID
    emitted,      \* streamCallback invocations: <<content, isToolCall>> records
    result,       \* value returned by the service function: [text, err]
    loadResult,   \* what LoadChatHistory returned: [history, err]
    saveCalls,    \* SaveChatHistory calls made: [history, ok] records, in order
    streamCalls,  \* number of stream.Stream / agent.Stream calls made
    calc,         \* the BM25Calculator: its fields but mu
    mu,           \* calc.mu (sync.RWMutex): [writer, readers]
    proc,         \* per goroutine: the method it runs and its locals
    crashed,      \* the runtime has stopped the process (fatal error)
    service,      \* the chatServiceImpl s: [agent, chatCache, embedder, chatTemplate]
    filteredHistory,   \* the local filteredHistory (Nil before the filter has run)
    verificationCodes  \* rows of the table of model.EmailVerificationCode

vars == <<program, pc, lpc, isPaused, doneClosed, cmdCount, delivered, srcState,
          recvHung, fullContent, closeCalls, deferred, chatHistory, ctl, cache,
          emitted, result, loadResult, saveCalls, streamCalls,
          calc, mu, proc, crashed, service, filteredHistory,
          verificationCodes>>

cliVars == <<lpc, isPaused, doneClosed, cmdCount>>
svcVars == <<ctl, cache, emitted, result>>
srcVars == <<delivered, srcState>>
callVars == <<loadResult, saveCalls, streamCalls>>
bmVars == <<calc, mu, proc, crashed>>
\* state of the operations that are followed on their own
ownVars == <<service, filteredHistory, verificationCodes>>

----------------------------------------------------------------------------
(* Bounds of the model *)

\* longest stream: Recv returns at most MaxChunks increments before it ends
MaxChunks == 3
\* lines the user types while one reply is generated
MaxCmds == 3

----------------------------------------------------------------------------
(* Data *)

Chunks == {"Hel", "lo", " world"}

\* a schema.Message received from the stream: Content and the names of ToolCalls
Increments ==
    {[content |-> c, tools |-> <<>>] : c \in Chunks}
        \cup {[content |-> "", tools |-> <<"weave_tool">>],
              [content |-> "lo", tools |-> <<"weave_tool", "weave_tool">>]}

\* lines typed on stdin while a reply is generated
Lines == {"pause", "continue", "stop", "STOP", "help"}

UserInput == "question"

UserMessage(c) == [role |-> "user", content |-> c]
AssistantMessage(c) == [role |-> "assistant", content |-> c]

\* histories the cache may hold for userID before the call
InitHistories == {<<>>, <<UserMessage("hi"), AssistantMessage("hello")>>}

Nil == "nil"
NoResult == [text |-> "", err |-> "none"]
\* LoadChatHistory has not been called yet
NoLoad == [history |-> <<>>, err |-> "none"]

\* strings.ToLower on the lines of Lines and on the tokens of RawTokens
ToLower(s) ==
    CASE s = "STOP" -> "stop"
      [] s = "Cat" -> "cat"
      [] OTHER -> s

\* strings.Builder.WriteString: append s to the buffer b
WriteStringFront(b, s) == s \o b
WriteString(b, s) == b \o s

\* "[调用工具: " + toolCall.Function.Name + "]"
ToolContent(name) == "[tool: " \o name \o "]"

RECURSIVE Concat(_)
\* in-order concatenation of the Content of a sequence of increments
Concat(incs) ==
    IF incs = <<>> THEN "" ELSE incs[1].content \o Concat(Tail(incs))

\* streamReader.Recv() is called: the call may return or block for ever
BeginRecv == \E h \in BOOLEAN : recvHung' = h

----------------------------------------------------------------------------
(* Initial states *)

Init ==
    /\ program \in {"cli", "ProcessUserInput", "ProcessUserInputStream"}
    /\ pc = IF program = "cli" THEN "format" ELSE "load"
    /\ lpc = "idle"
    /\ isPaused = FALSE
    /\ doneClosed = FALSE
    /\ cmdCount = 0
    /\ delivered = <<>>
    /\ srcState = "open"
    /\ recvHung = FALSE
    /\ fullContent = ""
    /\ closeCalls = 0
    /\ deferred = 0
    /\ chatHistory = <<>>
    /\ ctl = [paused |-> FALSE, stopped |-> FALSE]
    /\ cache \in IF program = "cli" THEN {<<>>} ELSE InitHistories
    /\ emitted = <<>>
    /\ result = NoResult
    /\ loadResult = NoLoad
    /\ saveCalls = <<>>
    /\ streamCalls = 0
    /\ calc = Nil /\ mu = Nil /\ proc = Nil /\ crashed = FALSE
    /\ service = Nil /\ filteredHistory = Nil /\ verificationCodes = Nil

----------------------------------------------------------------------------
(* The command line program: main goroutine (cmd/main.go)                  *)

\* positions of the main goroutine once it has left the streaming loop
CliLeftLoop == {"endStream", "wait", "prompt", "exited"}

\* template.Format: on failure the turn is skipped with `continue`
CliFormat ==
    /\ program = "cli" /\ pc = "format"
    /\ \E ok \in BOOLEAN : pc' = IF ok THEN "stream" ELSE "prompt"
    /\ UNCHANGED <<bmVars, ownVars, program, callVars,
                   cliVars, srcVars, recvHung, fullContent, closeCalls,
                   deferred, chatHistory, svcVars>>

\* stream.Stream: on success `defer streamReader.Close()` is registered and the
\* listener goroutine is started; on failure the turn is skipped
CliStream ==
    /\ program = "cli" /\ pc = "stream"
    /\ streamCalls' = streamCalls + 1
    /\ \E ok \in BOOLEAN :
          IF ok
          THEN /\ deferred' = deferred + 1
               /\ lpc' = "loop"
               /\ pc' = "select"
          ELSE /\ pc' = "prompt"
               /\ UNCHANGED <<deferred, lpc>>
    /\ UNCHANGED <<bmVars, ownVars, program, loadResult, saveCalls, isPaused, doneClosed, cmdCount,
                   srcVars, recvHung, fullContent, closeCalls, chatHistory, svcVars>>

\* a mutation of the outer select: no stopChan case, the default is always taken
CliSelectNoStop ==
    /\ program = "cli" /\ pc = "select"
    /\ pc' = "checkPaused"
    /\ UNCHANGED <<bmVars, ownVars, program, callVars,
                   cliVars, srcVars, recvHung, fullContent, closeCalls,
                   deferred, chatHistory, svcVars>>

\* the outer select of the streaming loop: the stopChan case when the listener
\* is blocked in `stopChan <- true`, the default case otherwise
CliSelect ==
    /\ program = "cli" /\ pc = "select"
    /\ IF lpc = "sendStop"
       THEN /\ closeCalls' = closeCalls + 1
            /\ pc' = "endStream"
            /\ lpc' = "done"
       ELSE /\ pc' = "checkPaused"
            /\ UNCHANGED <<closeCalls, lpc>>
    /\ UNCHANGED <<bmVars, ownVars, program, callVars,
                   isPaused, doneClosed, cmdCount, srcVars, recvHung,
                   fullContent, deferred, chatHistory, svcVars>>

\* mu.Lock(); paused := isPaused; mu.Unlock(); then the paused wait, or Recv
CliCheckPaused ==
    /\ program = "cli" /\ pc = "checkPaused"
    /\ IF isPaused
       THEN pc' = "pausedWait" /\ UNCHANGED recvHung
       ELSE pc' = "recv" /\ BeginRecv
    /\ UNCHANGED <<bmVars, ownVars, program, callVars,
                   cliVars, srcVars, fullContent, closeCalls, deferred,
                   chatHistory, svcVars>>

\* a mutation of the paused wait: it listens on pauseChan only
CliPausedWaitNoStop ==
    /\ program = "cli" /\ pc = "pausedWait"
    /\ lpc \in {"sendPause", "sendCont"}
    /\ pc' = "select"
    /\ lpc' = "loop"
    /\ UNCHANGED <<bmVars, ownVars, program, callVars,
                   isPaused, doneClosed, cmdCount, srcVars, recvHung,
                   fullContent, closeCalls, deferred, chatHistory, svcVars>>

\* the paused wait: select on pauseChan (then `continue`) and on stopChan (then
\* Close and goto endStream); it blocks until the listener sends on one of them
CliPausedWait ==
    /\ program = "cli" /\ pc = "pausedWait"
    /\ lpc \in {"sendPause", "sendCont", "sendStop"}
    /\ IF lpc = "sendStop"
       THEN /\ closeCalls' = closeCalls + 1
            /\ pc' = "endStream"
            /\ lpc' = "done"
       ELSE /\ pc' = "select"
            /\ lpc' = "loop"
            /\ UNCHANGED closeCalls
    /\ UNCHANGED <<bmVars, ownVars, program, callVars,
                   isPaused, doneClosed, cmdCount, srcVars, recvHung,
                   fullContent, deferred, chatHistory, svcVars>>

\* Recv returns an increment: it is printed and written to fullContent
CliRecvIncrement ==
    /\ program = "cli" /\ pc = "recv" /\ ~recvHung
    /\ srcState = "open" /\ Len(delivered) < MaxChunks
    /\ \E inc \in Increments :
          /\ delivered' = Append(delivered, inc)
          /\ fullContent' = WriteString(fullContent, inc.content)
    /\ pc' = "select"
    /\ UNCHANGED <<bmVars, ownVars, program, callVars,
                   cliVars, srcState, recvHung, closeCalls, deferred,
                   chatHistory, svcVars>>

\* Recv returns io.EOF or another error: `break` leaves the select statement,
\* and the for loop goes round again.  An ended stream keeps reporting io.EOF.
CliRecvEnd ==
    /\ program = "cli" /\ pc = "recv" /\ ~recvHung
    /\ \E e \in {"eof", "err"} :
          srcState' = IF srcState = "open" THEN e ELSE srcState
    /\ pc' = "select"
    /\ UNCHANGED <<bmVars, ownVars, program, callVars,
                   cliVars, delivered, recvHung, fullContent, closeCalls,
                   deferred, chatHistory, svcVars>>

\* endStream: close(doneChan)
CliEndStream ==
    /\ program = "cli" /\ pc = "endStream"
    /\ doneClosed' = TRUE
    /\ pc' = "wait"
    /\ UNCHANGED <<bmVars, ownVars, program, callVars, lpc, isPaused, cmdCount, srcVars, recvHung,
                   fullContent, closeCalls, deferred, chatHistory, svcVars>>

\* wg.Wait() returns once the listener has returned; chatHistory is extended
CliWait ==
    /\ program = "cli" /\ pc = "wait"
    /\ lpc = "done"
    /\ chatHistory' = chatHistory \o
                        <<UserMessage(UserInput), AssistantMessage(fullContent)>>
    /\ pc' = "prompt"
    /\ UNCHANGED <<bmVars, ownVars, program, callVars,
                   cliVars, srcVars, recvHung, fullContent, closeCalls,
                   deferred, svcVars>>

\* the user types exit: main returns and its deferred Close calls run
CliExit ==
    /\ program = "cli" /\ pc = "prompt"
    /\ closeCalls' = closeCalls + deferred
    /\ pc' = "exited"
    /\ UNCHANGED <<bmVars, ownVars, program, callVars,
                   cliVars, srcVars, recvHung, fullContent, deferred,
                   chatHistory, svcVars>>

----------------------------------------------------------------------------
(* The command line program: command listener goroutine                    *)

\* the listener is blocked in a channel send
ListenerSending == lpc \in {"sendPause", "sendCont", "sendStop"}

\* one round of the listener's loop: return if doneChan is closed, otherwise
\* read a line; pause / continue set isPaused under mu and then send on
\* pauseChan, stop sends on stopChan, any other line is ignored
ListenerScan ==
    /\ program = "cli" /\ lpc = "loop"
    /\ IF doneClosed
       THEN lpc' = "done" /\ UNCHANGED <<isPaused, cmdCount>>
       ELSE /\ cmdCount < MaxCmds
            /\ cmdCount' = cmdCount + 1
            /\ \E line \in Lines :
                  LET cmd == ToLower(line) IN
                  CASE cmd = "pause" -> isPaused' = TRUE /\ lpc' = "sendPause"
                    [] cmd = "continue" -> isPaused' = FALSE /\ lpc' = "sendCont"
                    [] cmd = "stop" -> lpc' = "sendStop" /\ UNCHANGED isPaused
                    [] OTHER -> UNCHANGED <<lpc, isPaused>>
    /\ UNCHANGED <<bmVars, ownVars, program, callVars,
                   pc, doneClosed, srcVars, recvHung, fullContent,
                   closeCalls, deferred, chatHistory, svcVars>>

CliNext ==
    \/ CliFormat \/ CliStream \/ CliSelect \/ CliCheckPaused \/ CliPausedWait
    \/ CliRecvIncrement \/ CliRecvEnd \/ CliEndStream \/ CliWait \/ CliExit
    \/ ListenerScan

----------------------------------------------------------------------------
(* chatServiceImpl.ProcessUserInput and ProcessUserInputStream             *)

IsService == program \in {"ProcessUserInput", "ProcessUserInputStream"}

RECURSIVE ToolText(_, _)
\* what the tool-call loop has written to fullContent after k tool calls
ToolText(tools, k) ==
    IF k = 0 THEN ""
    ELSE WriteString(ToolText(tools, k - 1), ToolContent(tools[k]))

\* the streamCallback invocations of the first k tool calls
ToolEmits(tools, k) ==
    [i \in 1..k |-> [content |-> ToolContent(tools[i]), isToolCall |-> TRUE]]

\* a mutation of the return: the stream reader is not closed on the way out
SvcReturnNoClose(text, err) ==
    /\ result' = [text |-> text, err |-> err]
    /\ pc' = "returned"
    /\ UNCHANGED closeCalls

\* a return statement of the function: the deferred streamReader.Close() calls
\* run as it returns
SvcReturn(text, err) ==
    /\ result' = [text |-> text, err |-> err]
    /\ pc' = "returned"
    /\ closeCalls' = closeCalls + deferred

\* a mutation of the load: a LoadChatHistory error is returned to the caller
SvcLoadFatal ==
    /\ IsService /\ pc = "load"
    /\ \E ok \in BOOLEAN :
          IF ok
          THEN /\ loadResult' = [history |-> cache, err |-> Nil]
               /\ chatHistory' = cache
               /\ pc' = "format"
               /\ UNCHANGED <<result, closeCalls>>
          ELSE /\ loadResult' = [history |-> <<>>, err |-> "load"]
               /\ SvcReturn("", "load")
               /\ UNCHANGED chatHistory
    /\ UNCHANGED <<bmVars, ownVars, program, saveCalls, streamCalls, cliVars, srcVars, recvHung,
                   fullContent, deferred, ctl, cache, emitted>>

\* s.chatCache.LoadChatHistory: a failure is logged and the history is empty
SvcLoad ==
    /\ IsService /\ pc = "load"
    /\ \E ok \in BOOLEAN :
          /\ loadResult' = IF ok THEN [history |-> cache, err |-> Nil]
                                 ELSE [history |-> <<>>, err |-> "load"]
          /\ chatHistory' = IF ok THEN cache ELSE <<>>
    /\ pc' = "format"
    /\ UNCHANGED <<bmVars, ownVars, program, saveCalls, streamCalls, cliVars, srcVars, recvHung,
                   fullContent, closeCalls, deferred, svcVars>>

\* a mutation of the format step: the Format error is looked at only after
\* agent.Stream has been called
SvcFormatLate ==
    /\ IsService /\ pc = "format"
    /\ \E ok \in BOOLEAN :
          IF ok
          THEN pc' = "stream" /\ UNCHANGED <<result, closeCalls, streamCalls>>
          ELSE SvcReturn("", "format") /\ streamCalls' = streamCalls + 1
    /\ UNCHANGED <<bmVars, ownVars, program, loadResult, saveCalls, cliVars, srcVars, recvHung,
                   fullContent, deferred, chatHistory, ctl, cache, emitted>>

\* s.chatTemplate.Format: a failure returns "", err
SvcFormat ==
    /\ IsService /\ pc = "format"
    /\ \E ok \in BOOLEAN :
          IF ok
          THEN pc' = "stream" /\ UNCHANGED <<result, closeCalls>>
          ELSE SvcReturn("", "format")
    /\ UNCHANGED <<bmVars, ownVars, program, callVars,
                   cliVars, srcVars, recvHung, fullContent, deferred,
                   chatHistory, ctl, cache, emitted>>

\* s.agent.Stream: a failure returns "", err; on success the Close is deferred.
\* ProcessUserInput goes straight into Recv, ProcessUserInputStream polls first.
SvcStream ==
    /\ IsService /\ pc = "stream"
    /\ streamCalls' = streamCalls + 1
    /\ \E ok \in BOOLEAN :
          IF ok
          THEN /\ deferred' = deferred + 1
               /\ IF program = "ProcessUserInput"
                  THEN pc' = "recv" /\ BeginRecv
                  ELSE pc' = "control" /\ UNCHANGED recvHung
               /\ UNCHANGED <<result, closeCalls>>
          ELSE /\ SvcReturn("", "stream")
               /\ UNCHANGED <<deferred, recvHung>>
    /\ UNCHANGED <<bmVars, ownVars, program, loadResult, saveCalls, cliVars, srcVars, fullContent,
                   chatHistory, ctl, cache, emitted>>

\* the caller changes what controlCallback will report; a stop is not taken back
SvcCommand ==
    /\ program = "ProcessUserInputStream" /\ pc # "returned"
    /\ \E c \in {"pause", "resume", "stop"} :
          ctl' = CASE c = "pause" -> [ctl EXCEPT !.paused = TRUE]
                   [] c = "resume" -> [ctl EXCEPT !.paused = FALSE]
                   [] c = "stop" -> [ctl EXCEPT !.stopped = TRUE]
    /\ UNCHANGED <<bmVars, ownVars, program, callVars, pc, cliVars, srcVars, recvHung, fullContent,
                   closeCalls, deferred, chatHistory, cache, emitted, result>>

\* a mutation of the control check: the paused flag is not looked at
SvcControlIgnorePause ==
    /\ program = "ProcessUserInputStream" /\ pc = "control"
    /\ IF ctl.stopped
       THEN pc' = "update" /\ UNCHANGED recvHung
       ELSE pc' = "recv" /\ BeginRecv
    /\ UNCHANGED <<bmVars, ownVars, program, callVars,
                   cliVars, srcVars, fullContent, closeCalls, deferred,
                   chatHistory, svcVars>>

\* top of the loop: isPaused, isStopped := controlCallback(); stopped breaks
\* out of the loop, paused goes round again, otherwise Recv is called
SvcControl ==
    /\ program = "ProcessUserInputStream" /\ pc = "control"
    /\ IF ctl.stopped
       THEN pc' = "update" /\ UNCHANGED recvHung
       ELSE IF ~ctl.paused
            THEN pc' = "recv" /\ BeginRecv
            ELSE UNCHANGED <<pc, recvHung>>
    /\ UNCHANGED <<bmVars, ownVars, program, callVars,
                   cliVars, srcVars, fullContent, closeCalls, deferred,
                   chatHistory, svcVars>>

\* Recv returns an increment.
\* ProcessUserInput writes its Content and calls Recv again.
\* ProcessUserInputStream hands it to streamCallback: one call per tool call
\* when it carries tool calls, else one call with its Content; what was handed
\* over is written to fullContent; a callback error returns "", err.
SvcRecvIncrement ==
    /\ IsService /\ pc = "recv" /\ ~recvHung
    /\ srcState = "open" /\ Len(delivered) < MaxChunks
    /\ \E inc \in Increments :
          /\ delivered' = Append(delivered, inc)
          /\ IF program = "ProcessUserInput"
             THEN /\ fullContent' = WriteString(fullContent, inc.content)
                  /\ pc' = "recv" /\ BeginRecv
                  /\ UNCHANGED <<emitted, result, closeCalls>>
             ELSE IF Len(inc.tools) > 0
             THEN \E failAt \in 0..Len(inc.tools) :
                     IF failAt = 0
                     THEN /\ emitted' = emitted \o ToolEmits(inc.tools, Len(inc.tools))
                          /\ fullContent' = WriteString(fullContent,
                                               ToolText(inc.tools, Len(inc.tools)))
                          /\ pc' = "control"
                          /\ UNCHANGED <<recvHung, result, closeCalls>>
                     ELSE /\ emitted' = emitted \o ToolEmits(inc.tools, failAt)
                          /\ fullContent' = WriteString(fullContent,
                                               ToolText(inc.tools, failAt - 1))
                          /\ SvcReturn("", "callback")
                          /\ UNCHANGED recvHung
             ELSE /\ emitted' = Append(emitted,
                                  [content |-> inc.content, isToolCall |-> FALSE])
                  /\ \E cbOk \in BOOLEAN :
                        IF cbOk
                        THEN /\ fullContent' = WriteString(fullContent, inc.content)
                             /\ pc' = "control"
                             /\ UNCHANGED <<recvHung, result, closeCalls>>
                        ELSE /\ SvcReturn("", "callback")
                             /\ UNCHANGED <<recvHung, fullContent>>
    /\ UNCHANGED <<bmVars, ownVars, program, callVars,
                   cliVars, srcState, deferred, chatHistory, ctl, cache>>

\* a mutation of the receive error: the function returns at once instead of
\* breaking out of the loop, so the history is not saved
SvcRecvEndReturns ==
    /\ IsService /\ pc = "recv" /\ ~recvHung
    /\ srcState = "open"
    /\ \E e \in {"eof", "err"} : srcState' = e
    /\ SvcReturn(fullContent, Nil)
    /\ UNCHANGED <<bmVars, ownVars, program, callVars, cliVars, delivered, recvHung, fullContent,
                   deferred, chatHistory, ctl, cache, emitted>>

\* Recv returns io.EOF or another error: break out of the loop
SvcRecvEnd ==
    /\ IsService /\ pc = "recv" /\ ~recvHung
    /\ srcState = "open"
    /\ \E e \in {"eof", "err"} : srcState' = e
    /\ pc' = "update"
    /\ UNCHANGED <<bmVars, ownVars, program, callVars,
                   cliVars, delivered, recvHung, fullContent, closeCalls,
                   deferred, chatHistory, svcVars>>

\* a mutation of the save: a SaveChatHistory error is returned to the caller
SvcSaveFatal ==
    /\ IsService /\ pc = "update"
    /\ chatHistory' = chatHistory \o
                        <<UserMessage(UserInput), AssistantMessage(fullContent)>>
    /\ \E ok \in BOOLEAN :
          /\ saveCalls' = Append(saveCalls, [history |-> chatHistory', ok |-> ok])
          /\ cache' = IF ok THEN chatHistory' ELSE cache
          /\ IF ok THEN SvcReturn(fullContent, Nil) ELSE SvcReturn("", "save")
    /\ UNCHANGED <<bmVars, ownVars, program, loadResult, streamCalls, cliVars, srcVars, recvHung,
                   fullContent, deferred, ctl, emitted>>

\* after the loop: the user message and the assistant message are appended to
\* chatHistory, SaveChatHistory is called (a failure is only logged) and
\* resultContent, nil is returned.  saveCalls logs the calls made here.
SvcSave ==
    /\ IsService /\ pc = "update"
    /\ chatHistory' = chatHistory \o
                        <<UserMessage(UserInput), AssistantMessage(fullContent)>>
    /\ \E ok \in BOOLEAN :
          /\ saveCalls' = Append(saveCalls, [history |-> chatHistory', ok |-> ok])
          /\ cache' = IF ok THEN chatHistory' ELSE cache
    /\ SvcReturn(fullContent, Nil)
    /\ UNCHANGED <<bmVars, ownVars, program, loadResult, streamCalls, cliVars, srcVars, recvHung,
                   fullContent, deferred, ctl, emitted>>

\* ClearChatHistory, called once the turn is over: it saves an empty history
SvcClearChatHistory ==
    /\ IsService /\ pc = "returned"
    /\ \E ok \in BOOLEAN : cache' = IF ok THEN <<>> ELSE cache
    /\ UNCHANGED <<bmVars, ownVars, program, pc, callVars, cliVars, srcVars, recvHung, fullContent,
                   closeCalls, deferred, chatHistory, ctl, emitted, result>>

SvcNext ==
    \/ SvcLoad \/ SvcFormat \/ SvcStream \/ SvcCommand \/ SvcControl
    \/ SvcRecvIncrement \/ SvcRecvEnd \/ SvcSave \/ SvcClearChatHistory

----------------------------------------------------------------------------
(* Specifications *)

Next == CliNext \/ SvcNext

Spec == Init /\ [][Next]_vars

\* steps the Go scheduler takes once they are possible: every step of the
\* consuming goroutine except those that wait for the user (a typed line, a
\* typed exit) or for a Recv that never returns
Progress ==
    \/ CliFormat \/ CliStream \/ CliSelect \/ CliCheckPaused \/ CliPausedWait
    \/ CliRecvIncrement \/ CliRecvEnd \/ CliEndStream \/ CliWait
    \/ SvcLoad \/ SvcFormat \/ SvcStream \/ SvcControl
    \/ SvcRecvIncrement \/ SvcRecvEnd \/ SvcSave

FairSpec == Spec /\ WF_vars(Progress)

----------------------------------------------------------------------------
(* Properties *)

\* positions of the service function once it has left the streaming loop
SvcLeftLoop == {"update", "returned"}

\* the consuming goroutine is blocked in a Recv that never returns
RecvBlockedForEver == pc = "recv" /\ recvHung

\* the paused wait of the cli with the listener blocked in `stopChan <- true`
CliStopWhilePaused == program = "cli" /\ pc = "pausedWait" /\ lpc = "sendStop"

\* the control check of ProcessUserInputStream with paused and stopped reported
SvcStopWhilePaused ==
    program = "ProcessUserInputStream" /\ pc = "control"
        /\ ctl.paused /\ ctl.stopped

\* C1: a stop that arrives while generation is paused takes effect without a
\* resume.  cli: from the paused wait with a stop pending, the consuming loop's
\* next step is the jump to endStream, and it is taken.  ProcessUserInputStream:
\* from a control check reporting paused and stopped, the loop's next step
\* leaves the loop, and it is taken.  Once a loop is left no Recv is issued.
C1_StopWhilePausedTakesEffect ==
    /\ CliStopWhilePaused ~> (pc \in CliLeftLoop)
    /\ SvcStopWhilePaused ~> (pc \in SvcLeftLoop)
    /\ [][ /\ CliStopWhilePaused => pc' \in {"pausedWait", "endStream"}
           /\ SvcStopWhilePaused => pc' \in {"control", "update"}
           /\ pc \in (CliLeftLoop \cup SvcLeftLoop) => pc' # "recv" ]_vars

\* C1 witness: the cli loop has reached endStream while isPaused is still set
C1_Witness == program = "cli" /\ pc = "endStream" /\ isPaused

\* C2: in the cli, once the listener has read a stop line the consuming loop
\* reaches endStream, unless a Recv never returns; with the stop pending the
\* loop never takes the default case of the outer select again, so at most one
\* more Recv is issued.
C2_StopReachesEndStream ==
    /\ (program = "cli" /\ lpc = "sendStop")
           ~> (pc \in CliLeftLoop \/ RecvBlockedForEver)
    /\ [][ (program = "cli" /\ lpc = "sendStop" /\ pc = "select")
               => pc' \in {"select", "endStream"} ]_vars

\* C2 witness: endStream reached by a stop after the source had already ended
C2_Witness == program = "cli" /\ pc = "endStream" /\ srcState # "open"

\* C3: in the cli, Close is called on the stream reader exactly once: never
\* twice, and once by the time main has returned.
C3_CliClosesExactlyOnce ==
    (program = "cli" /\ deferred > 0)
        => /\ closeCalls <= 1
           /\ pc = "exited" => closeCalls = 1

\* C4: in ProcessUserInput and ProcessUserInputStream, when agent.Stream
\* returned a stream reader, Close has been called on it exactly once when the
\* function has returned and not at all before; without a stream reader
\* Close is never called.
C4_ServiceClosesExactlyOnce ==
    IsService =>
        closeCalls = IF deferred > 0 /\ pc = "returned" THEN 1 ELSE 0

\* C4 witness: ProcessUserInputStream returned a streamCallback error and the
\* stream reader has been closed once
C4_Witness ==
    /\ program = "ProcessUserInputStream" /\ pc = "returned"
    /\ result.err = "callback" /\ closeCalls = 1

\* C5: in the cli with no command typed, once Recv has returned io.EOF or
\* another error the consuming loop has left the loop (endStream) and no Recv
\* is in progress.
C5_EndOfStreamExits ==
    (program = "cli" /\ cmdCount = 0 /\ srcState # "open")
        => pc \in CliLeftLoop

NoToolCalls(incs) == \A i \in 1..Len(incs) : incs[i].tools = <<>>

C7_PausedIterationDoesNothing ==
    [][ (program = "ProcessUserInputStream" /\ pc = "control"
            /\ ctl.paused /\ ~ctl.stopped)
          => /\ pc' = "control"
             /\ UNCHANGED <<delivered, recvHung, fullContent, emitted, closeCalls>>
      ]_vars

\* C7 witness: a paused control check in the middle of a stream
C7_Witness ==
    /\ program = "ProcessUserInputStream" /\ pc = "control"
    /\ ctl.paused /\ ~ctl.stopped /\ Len(delivered) = 2

\* C8: in the cli nothing is appended to fullContent while isPaused is set.
C8_NoAppendWhilePaused ==
    [][ (program = "cli" /\ isPaused) => fullContent' = fullContent ]_vars

\* C9: a stop issued while a Recv is in progress takes effect (the loop is
\* left) even if that Recv never returns, in the cli and in
\* ProcessUserInputStream.
C9_StopDuringRecvTakesEffect ==
    /\ (program = "cli" /\ lpc = "sendStop" /\ pc = "recv")
           ~> (pc \in CliLeftLoop)
    /\ (program = "ProcessUserInputStream" /\ ctl.stopped /\ pc = "recv")
           ~> (pc \in SvcLeftLoop)

\* C10: in the cli the listener hands every command over and goes on: it never
\* stays blocked for ever in a channel send while the consuming loop keeps
\* running.
C10_ListenerNeverBlocksForEver ==
    (program = "cli" /\ ListenerSending)
        ~> (~ListenerSending \/ RecvBlockedForEver)

----------------------------------------------------------------------------
(* Properties of one turn of the chat service *)

\* the user message and the assistant message a turn appends
TurnMessages == <<UserMessage(UserInput), AssistantMessage(fullContent)>>

\* a is a prefix of b
IsPrefix(a, b) == Len(a) <= Len(b) /\ SubSeq(b, 1, Len(a)) = a

\* C11: when Recv fails mid-stream with an error other than end-of-stream,
\* ProcessUserInput and ProcessUserInputStream return the accumulated text
\* together with a non-nil error.
C11_GenerationFaultReported ==
    (IsService /\ pc = "returned" /\ srcState = "err")
        => (result.text = fullContent /\ result.err # Nil)

C13_HistoryAppendOnly ==
    [][ IsService => (SvcClearChatHistory \/ IsPrefix(cache, cache')) ]_vars

\* C14: when chatTemplate.Format returns an error the function returns that
\* error with empty text, and agent.Stream, streamCallback and
\* SaveChatHistory have not been called.
C14_FormatFaultAborts ==
    (IsService /\ result.err = "format")
        => /\ pc = "returned" /\ result.text = ""
           /\ streamCalls = 0 /\ deferred = 0
           /\ emitted = <<>> /\ saveCalls = <<>>

\* C14 witness: a turn that loaded a history and failed in Format
C14_Witness ==
    /\ IsService /\ pc = "returned" /\ result.err = "format"
    /\ Len(loadResult.history) = 2

\* C15: when LoadChatHistory returns an error the turn goes on to Format
\* with an empty history, and the load error is never returned.
C15_LoadFaultNonFatal ==
    /\ [](IsService /\ loadResult.err = "load"
            => /\ result.err # "load"
               /\ pc = "format" => (chatHistory = <<>> /\ result = NoResult))
    /\ [][ (IsService /\ pc = "load") => pc' \in {"load", "format"} ]_vars

\* C15 witness: after a failed load the turn ran to the end of a full stream
C15_Witness ==
    /\ IsService /\ loadResult.err = "load" /\ pc = "returned"
    /\ result.err = Nil /\ Len(delivered) = MaxChunks

\* C16: when SaveChatHistory returns an error the function still returns the
\* full accumulated text with a nil error.
C16_SaveFaultNonFatal ==
    (IsService /\ pc = "returned" /\ saveCalls # <<>>
        /\ ~saveCalls[Len(saveCalls)].ok)
        => (result.text = fullContent /\ result.err = Nil)

\* C16 witness: "Hello world" returned although the save failed
C16_Witness ==
    /\ IsService /\ pc = "returned" /\ Len(saveCalls) = 1 /\ ~saveCalls[1].ok
    /\ result.text = "Hello world" /\ result.err = Nil

----------------------------------------------------------------------------
(* The BM25 calculator (pkg/bm25.go): values                                *)

\* most documents the corpus grows to
MaxDocs == 2
\* most documents of the corpus NewBM25Calculator is given
MaxInitDocs == 1
\* the goroutines that use the calculator
Procs == {1, 2}

\* the methods a goroutine calls: the first one only mutates the calculator
Mutations == {"AddDocument", "SetParameters"}
Reads == {"Calculate", "CalculateQuerySimilarity", "ExtractKeywords"}
Methods(p) == IF p = 1 THEN Mutations ELSE Mutations \cup Reads

\* a float64 is modelled in thousandths, with NaN and the two infinities;
\* products and quotients are rounded towards zero to a thousandth
Scale == 1000
Num(v) == [k |-> "num", v |-> v]
NaN == [k |-> "nan", v |-> 0]
Inf(sign) == [k |-> "inf", v |-> sign]
FromInt(n) == Num(n * Scale)
Half == Num(500)

Sign(v) == IF v > 0 THEN 1 ELSE IF v < 0 THEN -1 ELSE 0
Abs(v) == IF v < 0 THEN -v ELSE v
\* integer quotient rounded towards zero
Quot(a, d) == Sign(a) * Sign(d) * (Abs(a) \div Abs(d))

\* x + y
FAdd(x, y) ==
    CASE x.k = "nan" \/ y.k = "nan" -> NaN
      [] x.k = "inf" /\ y.k = "inf" -> IF x.v = y.v THEN x ELSE NaN
      [] x.k = "inf" -> x
      [] y.k = "inf" -> y
      [] OTHER -> Num(x.v + y.v)

\* x - y
FSub(x, y) == FAdd(x, [y EXCEPT !.v = -y.v])

\* x * y
FMul(x, y) ==
    CASE x.k = "nan" \/ y.k = "nan" -> NaN
      [] x.k = "inf" \/ y.k = "inf" ->
            IF x.v = 0 \/ y.v = 0 THEN NaN ELSE Inf(Sign(x.v) * Sign(y.v))
      [] OTHER -> Num(Quot(x.v * y.v, Scale))

\* x / y (the sign of a zero is not modelled: a zero divisor counts as +0)
FDiv(x, y) ==
    CASE x.k = "nan" \/ y.k = "nan" -> NaN
      [] x.k = "inf" /\ y.k = "inf" -> NaN
      [] x.k = "inf" -> Inf(x.v * (IF y.v < 0 THEN -1 ELSE 1))
      [] y.k = "inf" -> Num(0)
      [] y.v = 0 -> IF x.v = 0 THEN NaN ELSE Inf(Sign(x.v))
      [] OTHER -> Num(Quot(x.v * Scale, y.v))

\* math.Max
FMax(x, y) ==
    CASE (x.k = "inf" /\ x.v = 1) \/ (y.k = "inf" /\ y.v = 1) -> Inf(1)
      [] x.k = "nan" \/ y.k = "nan" -> NaN
      [] x.k = "inf" -> y
      [] y.k = "inf" -> x
      [] OTHER -> IF x.v >= y.v THEN x ELSE y

\* ln(0.5), ln(1), ln(1.5), ln(2), ... ln(8) in thousandths
LnOfHalves ==
    <<-693, 0, 405, 693, 916, 1099, 1253, 1386, 1504, 1609, 1705, 1792, 1872,
      1946, 2015, 2079>>

\* math.Log, for the arguments the calculator passes: multiples of 0.5
Log(x) ==
    CASE x.k = "nan" -> NaN
      [] x.k = "inf" -> IF x.v = 1 THEN x ELSE NaN
      [] x.v < 0 -> NaN
      [] x.v = 0 -> Inf(-1)
      [] OTHER -> Num(LnOfHalves[x.v \div 500])

\* tok.Text of the tokens prose finds in the texts below
RawTokens == {"Cat", "cat", "dog", " dog", "a"}

\* a text is given as the sequence of the tokens prose.NewDocument finds in it
Texts == {<<"a">>, <<"Cat", " dog">>, <<"dog", "dog">>}
Queries == {<<"cat">>, <<"a", "dog", "Cat">>}

\* strings.TrimSpace on the tokens of RawTokens
TrimSpace(s) == IF s = " dog" THEN "dog" ELSE s

\* tokenize: lower-cased, trimmed tokens longer than one character
tokenize(text) ==
    SelectSeq([i \in 1..Len(text) |-> ToLower(TrimSpace(text[i]))],
              LAMBDA word : Len(word) > 1)

\* the words tokenize can yield: the keys of vocabulary and docFreq
Words == {w \in {ToLower(TrimSpace(t)) : t \in RawTokens} : Len(w) > 1}

\* an empty map[string]int: reading an absent key yields 0
EmptyMap == [w \in Words |-> 0]

\* a mutation: every word of the document counts as an occurrence
CountAll(word, words) == Len(words)

RECURSIVE Count(_, _)
\* occurrences of word in words: docWordFreq[word]
Count(word, words) ==
    IF words = <<>> THEN 0
    ELSE (IF Head(words) = word THEN 1 ELSE 0) + Count(word, Tail(words))

RECURSIVE Sum(_)
\* totalLength: the sum of a sequence of lengths
Sum(lengths) == IF lengths = <<>> THEN 0 ELSE Head(lengths) + Sum(Tail(lengths))

\* the keys of uniqueWords
UniqueWords(words) == {words[i] : i \in 1..Len(words)}

\* calc.vocabulary[word]++ for every word of a document
VocabularyAdd(vocabulary, words) ==
    [w \in Words |-> vocabulary[w] + Count(w, words)]

\* calc.docFreq[word]++ for every word of uniqueWords
DocFreqAdd(docFreq, words) ==
    [w \in Words |-> docFreq[w] + IF w \in UniqueWords(words) THEN 1 ELSE 0]

\* a mutation: the new cache holds a score
MakeCacheStale == {[query |-> <<"cat">>, document |-> <<"a">>, score |-> Num(0)]}

\* make(map[string]float64): the cache as a set of entries
MakeCache == {}

DefaultK1 == Num(1500)
DefaultB == Num(750)

\* the (k1, b) pairs SetParameters is called with: it accepts any float64
Parameters == {<<Num(-800), Num(750)>>}

RECURSIVE buildLoop(_, _, _)
\* the loop of buildVocabulary over calc.documents, from index i on
buildLoop(c, i, totalLength) ==
    IF i > Len(c.documents) THEN [calc |-> c, totalLength |-> totalLength]
    ELSE LET words == tokenize(c.documents[i])
         IN  buildLoop([c EXCEPT !.docLengths[i] = Len(words),
                                 !.vocabulary = VocabularyAdd(@, words),
                                 !.docFreq = DocFreqAdd(@, words)],
                       i + 1, totalLength + Len(words))

buildVocabulary(c) ==
    LET r == buildLoop(c, 1, 0)
    IN  [r.calc EXCEPT
            !.avgDocLength =
                IF Len(c.documents) > 0
                THEN FDiv(FromInt(r.totalLength), FromInt(Len(c.documents)))
                ELSE @,
            !.totalDocs = Len(c.documents)]

NewBM25Calculator(documents) ==
    buildVocabulary([documents    |-> documents,
                     vocabulary   |-> EmptyMap,
                     docLengths   |-> [i \in 1..Len(documents) |-> 0],
                     avgDocLength |-> Num(0),
                     docFreq      |-> EmptyMap,
                     totalDocs    |-> Len(documents),
                     k1           |-> DefaultK1,
                     b            |-> DefaultB,
                     bm25Cache    |-> MakeCache])

\* line 239-240 of calculateIDF, from the values read
IDF(totalDocs, docFreqOfWord) ==
    LET df == IF docFreqOfWord = 0 THEN 1 ELSE docFreqOfWord
        idf == FDiv(Log(FAdd(FromInt(totalDocs - df), Half)),
                    FAdd(FromInt(df), Half))
    IN  FMax(Num(0), idf)

calculateIDF(c, word) ==
    IF c.totalDocs = 0 THEN Num(0) ELSE IDF(c.totalDocs, c.docFreq[word])

\* numerator := tf * (calc.k1 + 1)
Numerator(tf, k1) == FMul(FromInt(tf), FAdd(k1, FromInt(1)))

\* denominator := tf + calc.k1*(1-calc.b+calc.b*float64(docLength)/avgLength)
Denominator(tf, k1, b, docLength, avgLength) ==
    FAdd(FromInt(tf),
         FMul(k1, FAdd(FSub(FromInt(1), b),
                       FDiv(FMul(b, FromInt(docLength)), avgLength))))

\* if tf > 0 { score += idf * numerator / denominator }
Term(score, idf, tf, numerator, denominator) ==
    IF tf > 0 THEN FAdd(score, FDiv(FMul(idf, numerator), denominator))
    ELSE score

RECURSIVE scoreLoop(_, _, _, _, _, _)
\* the loop over queryWords of calculateBM25Score, from index i on
scoreLoop(c, queryWords, i, docWords, docLength, score) ==
    IF i > Len(queryWords) THEN score
    ELSE LET word == queryWords[i]
             tf == Count(word, docWords)
         IN  scoreLoop(c, queryWords, i + 1, docWords, docLength,
                       Term(score, calculateIDF(c, word), tf,
                            Numerator(tf, c.k1),
                            Denominator(tf, c.k1, c.b, docLength,
                                        c.avgDocLength)))

calculateBM25Score(c, queryWords, docIndex) ==
    scoreLoop(c, queryWords, 1, tokenize(c.documents[docIndex]),
              c.docLengths[docIndex], Num(0))

\* a mutation of CalculateQuerySimilarity: the length of the text itself is
\* always the normalisation basis
CalculateQuerySimilarityOwnLength(c, query, document) ==
    LET docWords == tokenize(document)
    IN  scoreLoop([c EXCEPT !.avgDocLength = FromInt(Len(docWords))],
                  tokenize(query), 1, docWords, Len(docWords), Num(0))

\* CalculateQuerySimilarity when no mutation overlaps the call
CalculateQuerySimilarity(c, query, document) ==
    LET docWords == tokenize(document)
        docLength == Len(docWords)
        avgLength == IF c.avgDocLength = Num(0) THEN FromInt(docLength)
                     ELSE c.avgDocLength
    IN  scoreLoop([c EXCEPT !.avgDocLength = avgLength], tokenize(query), 1,
                  docWords, docLength, Num(0))

\* Calculate under the read lock: result[doc] = score, a later index of an
\* equal document overwriting an earlier one
Calculate(c, text) ==
    LET queryWords == tokenize(text)
        last(doc) == CHOOSE i \in 1..Len(c.documents) :
                        /\ c.documents[i] = doc
                        /\ \A j \in (i + 1)..Len(c.documents) : c.documents[j] # doc
    IN  [doc \in {c.documents[i] : i \in 1..Len(c.documents)} |->
            calculateBM25Score(c, queryWords, last(doc))]

----------------------------------------------------------------------------
(* The BM25 calculator: goroutines calling its methods                      *)

\* a goroutine that runs no method; the fields are the locals of the methods
Idle ==
    [op |-> "none", pc |-> "idle", query |-> <<>>, text |-> <<>>,
     k1 |-> Num(0), b |-> Num(0), topN |-> 0, i |-> 0, word |-> "",
     todo |-> {}, avgLength |-> Num(0), df |-> 0, idf |-> Num(0),
     numerator |-> Num(0), score |-> Num(0), wordScores |-> <<>>, ret |-> Nil]

\* the corpora NewBM25Calculator is given
RECURSIVE Corpora(_)
Corpora(n) ==
    IF n = 0 THEN {<<>>}
    ELSE Corpora(n - 1) \cup
         {Append(c, d) : c \in {x \in Corpora(n - 1) : Len(x) = n - 1}, d \in Texts}

InitBM25 ==
    /\ program = "bm25"
    /\ pc = "none" /\ lpc = "idle"
    /\ isPaused = FALSE /\ doneClosed = FALSE /\ cmdCount = 0
    /\ delivered = <<>> /\ srcState = "open" /\ recvHung = FALSE
    /\ fullContent = "" /\ closeCalls = 0 /\ deferred = 0
    /\ chatHistory = <<>> /\ ctl = [paused |-> FALSE, stopped |-> FALSE]
    /\ cache = <<>> /\ emitted = <<>> /\ result = NoResult
    /\ loadResult = NoLoad /\ saveCalls = <<>> /\ streamCalls = 0
    /\ \E documents \in Corpora(MaxInitDocs) : calc = NewBM25Calculator(documents)
    /\ mu = [writer |-> 0, readers |-> {}]
    /\ proc = [p \in Procs |-> Idle]
    /\ crashed = FALSE
    /\ service = Nil /\ filteredHistory = Nil /\ verificationCodes = Nil

\* the variables of the chat programs, which the calculator leaves alone
chatVars ==
    <<program, pc, cliVars, srcVars, recvHung, fullContent, closeCalls, deferred,
      chatHistory, svcVars, callVars, ownVars>>

Running == program = "bm25" /\ ~crashed
CanCall(p, method) ==
    Running /\ proc[p].pc \in {"idle", "done"} /\ method \in Methods(p)
At(p, op, at) == Running /\ proc[p].op = op /\ proc[p].pc = at

\* the method of p returns ret; its locals are dead
Return(p, ret) ==
    IF proc[p].op \in Mutations THEN [Idle EXCEPT !.op = proc[p].op, !.pc = "done"]
    ELSE [Idle EXCEPT !.op = proc[p].op, !.pc = "done", !.query = proc[p].query,
                      !.text = proc[p].text, !.ret = ret]

\* AddDocument ---------------------------------------------------------------

\* documents appended or about to be appended by the AddDocument calls running
Adding ==
    Cardinality({p \in Procs : proc[p].op = "AddDocument"
                                /\ proc[p].pc \in {"lock", "documents"}})

CallAddDocument(p) ==
    /\ CanCall(p, "AddDocument")
    /\ Len(calc.documents) + Adding < MaxDocs
    /\ \E doc \in Texts :
          proc' = [proc EXCEPT ![p] =
                      [Idle EXCEPT !.op = "AddDocument", !.pc = "lock", !.text = doc]]
    /\ UNCHANGED <<calc, mu, crashed, chatVars>>

\* calc.mu.Lock()
AddDocumentLock(p) ==
    /\ At(p, "AddDocument", "lock")
    /\ mu.writer = 0 /\ mu.readers = {}
    /\ mu' = [mu EXCEPT !.writer = p]
    /\ proc' = [proc EXCEPT ![p].pc = "documents"]
    /\ UNCHANGED <<calc, crashed, chatVars>>

\* calc.documents = append(calc.documents, doc)
AddDocumentAppend(p) ==
    /\ At(p, "AddDocument", "documents")
    /\ calc' = [calc EXCEPT !.documents = Append(@, proc[p].text)]
    /\ proc' = [proc EXCEPT ![p].pc = "docLengths"]
    /\ UNCHANGED <<mu, crashed, chatVars>>

\* calc.docLengths = append(calc.docLengths, len(words))
AddDocumentLength(p) ==
    /\ At(p, "AddDocument", "docLengths")
    /\ calc' = [calc EXCEPT !.docLengths = Append(@, Len(tokenize(proc[p].text)))]
    /\ proc' = [proc EXCEPT ![p].pc = "avgDocLength"]
    /\ UNCHANGED <<mu, crashed, chatVars>>

\* calc.avgDocLength = float64(totalLength) / float64(len(calc.docLengths))
AddDocumentAverage(p) ==
    /\ At(p, "AddDocument", "avgDocLength")
    /\ calc' = [calc EXCEPT !.avgDocLength =
                   FDiv(FromInt(Sum(calc.docLengths)), FromInt(Len(calc.docLengths)))]
    /\ proc' = [proc EXCEPT ![p].pc = "vocabulary"]
    /\ UNCHANGED <<mu, crashed, chatVars>>

\* calc.vocabulary[word]++ for every word
AddDocumentVocabulary(p) ==
    /\ At(p, "AddDocument", "vocabulary")
    /\ calc' = [calc EXCEPT !.vocabulary = VocabularyAdd(@, tokenize(proc[p].text))]
    /\ proc' = [proc EXCEPT ![p].pc = "docFreq"]
    /\ UNCHANGED <<mu, crashed, chatVars>>

\* a mutation: calc.docFreq[word]++ for every occurrence of a word
AddDocumentDocFreqPerOccurrence(p) ==
    /\ At(p, "AddDocument", "docFreq")
    /\ calc' = [calc EXCEPT !.docFreq = VocabularyAdd(@, tokenize(proc[p].text))]
    /\ proc' = [proc EXCEPT ![p].pc = "totalDocs"]
    /\ UNCHANGED <<mu, crashed, chatVars>>

\* calc.docFreq[word]++ for every word of uniqueWords
AddDocumentDocFreq(p) ==
    /\ At(p, "AddDocument", "docFreq")
    /\ calc' = [calc EXCEPT !.docFreq = DocFreqAdd(@, tokenize(proc[p].text))]
    /\ proc' = [proc EXCEPT ![p].pc = "totalDocs"]
    /\ UNCHANGED <<mu, crashed, chatVars>>

\* calc.totalDocs = len(calc.documents)
AddDocumentTotalDocs(p) ==
    /\ At(p, "AddDocument", "totalDocs")
    /\ calc' = [calc EXCEPT !.totalDocs = Len(calc.documents)]
    /\ proc' = [proc EXCEPT ![p].pc = "bm25Cache"]
    /\ UNCHANGED <<mu, crashed, chatVars>>

\* calc.bm25Cache = make(map[string]float64), then the deferred calc.mu.Unlock()
AddDocumentReturn(p) ==
    /\ At(p, "AddDocument", "bm25Cache")
    /\ calc' = [calc EXCEPT !.bm25Cache = MakeCache]
    /\ mu' = [mu EXCEPT !.writer = 0]
    /\ proc' = [proc EXCEPT ![p] = Return(p, Nil)]
    /\ UNCHANGED <<crashed, chatVars>>

\* SetParameters --------------------------------------------------------------

CallSetParameters(p) ==
    /\ CanCall(p, "SetParameters")
    /\ \E kb \in Parameters :
          proc' = [proc EXCEPT ![p] =
                      [Idle EXCEPT !.op = "SetParameters", !.pc = "lock",
                                   !.k1 = kb[1], !.b = kb[2]]]
    /\ UNCHANGED <<calc, mu, crashed, chatVars>>

\* calc.mu.Lock()
SetParametersLock(p) ==
    /\ At(p, "SetParameters", "lock")
    /\ mu.writer = 0 /\ mu.readers = {}
    /\ mu' = [mu EXCEPT !.writer = p]
    /\ proc' = [proc EXCEPT ![p].pc = "k1"]
    /\ UNCHANGED <<calc, crashed, chatVars>>

\* calc.k1 = k1
SetParametersK1(p) ==
    /\ At(p, "SetParameters", "k1")
    /\ calc' = [calc EXCEPT !.k1 = proc[p].k1]
    /\ proc' = [proc EXCEPT ![p].pc = "b"]
    /\ UNCHANGED <<mu, crashed, chatVars>>

\* calc.b = b
SetParametersB(p) ==
    /\ At(p, "SetParameters", "b")
    /\ calc' = [calc EXCEPT !.b = proc[p].b]
    /\ proc' = [proc EXCEPT ![p].pc = "bm25Cache"]
    /\ UNCHANGED <<mu, crashed, chatVars>>

\* calc.bm25Cache = make(map[string]float64), then the deferred calc.mu.Unlock()
SetParametersReturn(p) ==
    /\ At(p, "SetParameters", "bm25Cache")
    /\ calc' = [calc EXCEPT !.bm25Cache = MakeCache]
    /\ mu' = [mu EXCEPT !.writer = 0]
    /\ proc' = [proc EXCEPT ![p] = Return(p, Nil)]
    /\ UNCHANGED <<crashed, chatVars>>

\* Calculate ------------------------------------------------------------------

CallCalculate(p) ==
    /\ CanCall(p, "Calculate")
    /\ \E text \in Queries :
          proc' = [proc EXCEPT ![p] =
                      [Idle EXCEPT !.op = "Calculate", !.pc = "rlock", !.query = text]]
    /\ UNCHANGED <<calc, mu, crashed, chatVars>>

\* calc.mu.RLock()
CalculateRLock(p) ==
    /\ At(p, "Calculate", "rlock")
    /\ mu.writer = 0
    /\ mu' = [mu EXCEPT !.readers = @ \cup {p}]
    /\ proc' = [proc EXCEPT ![p].pc = "score"]
    /\ UNCHANGED <<calc, crashed, chatVars>>

\* the loop over calc.documents, then the deferred calc.mu.RUnlock()
CalculateReturn(p) ==
    /\ At(p, "Calculate", "score")
    /\ mu' = [mu EXCEPT !.readers = @ \ {p}]
    /\ proc' = [proc EXCEPT ![p] = Return(p, Calculate(calc, proc[p].query))]
    /\ UNCHANGED <<calc, crashed, chatVars>>

\* CalculateQuerySimilarity and ExtractKeywords: no lock is taken ------------

\* the loop of CalculateQuerySimilarity moves on to query word i, or the
\* method returns score when the query words are exhausted
QueryWord(r, i, score) ==
    LET queryWords == tokenize(r.query)
    IN  IF i > Len(queryWords)
        THEN [Idle EXCEPT !.op = r.op, !.pc = "done", !.query = r.query,
                          !.text = r.text, !.ret = score]
        ELSE [r EXCEPT !.pc = "totalDocs", !.i = i, !.word = queryWords[i],
                       !.score = score, !.df = 0, !.idf = Num(0),
                       !.numerator = Num(0)]

CallCalculateQuerySimilarity(p) ==
    /\ CanCall(p, "CalculateQuerySimilarity")
    /\ \E query \in Queries, document \in Texts :
          proc' = [proc EXCEPT ![p] =
                      [Idle EXCEPT !.op = "CalculateQuerySimilarity",
                                   !.pc = "avgDocLength",
                                   !.query = query, !.text = document]]
    /\ UNCHANGED <<calc, mu, crashed, chatVars>>

\* a mutation: avgLength := calc.avgDocLength, without the fallback
QuerySimilarityAverageNoFallback(p) ==
    /\ At(p, "CalculateQuerySimilarity", "avgDocLength")
    /\ proc' = [proc EXCEPT ![p] =
                   QueryWord([proc[p] EXCEPT !.avgLength = calc.avgDocLength],
                             1, Num(0))]
    /\ UNCHANGED <<calc, mu, crashed, chatVars>>

\* avgLength := calc.avgDocLength; if avgLength == 0 { avgLength = docLength }
QuerySimilarityAverage(p) ==
    /\ At(p, "CalculateQuerySimilarity", "avgDocLength")
    /\ LET docLength == Len(tokenize(proc[p].text))
           avgLength == IF calc.avgDocLength = Num(0) THEN FromInt(docLength)
                        ELSE calc.avgDocLength
       IN  proc' = [proc EXCEPT ![p] =
                       QueryWord([proc[p] EXCEPT !.avgLength = avgLength], 1, Num(0))]
    /\ UNCHANGED <<calc, mu, crashed, chatVars>>

\* calculateIDF: if calc.totalDocs == 0 { return 0 }
IdfTotalDocs(p) ==
    /\ Running /\ proc[p].pc = "totalDocs"
    /\ proc[p].op \in {"CalculateQuerySimilarity", "ExtractKeywords"}
    /\ proc' = [proc EXCEPT ![p] =
                   IF calc.totalDocs = 0
                   THEN [@ EXCEPT !.pc = "idf", !.idf = Num(0)]
                   ELSE [@ EXCEPT !.pc = "docFreq"]]
    /\ UNCHANGED <<calc, mu, crashed, chatVars>>

\* calculateIDF: df := calc.docFreq[word]
IdfDocFreq(p) ==
    /\ Running /\ proc[p].pc = "docFreq"
    /\ proc[p].op \in {"CalculateQuerySimilarity", "ExtractKeywords"}
    /\ proc' = [proc EXCEPT ![p].pc = "log", ![p].df = calc.docFreq[proc[p].word]]
    /\ UNCHANGED <<calc, mu, crashed, chatVars>>

\* the read of calc.docFreq overlaps a write of AddDocument to the same map:
\* the runtime may stop the process ("concurrent map read and map write")
ConcurrentMapAccess(p) ==
    /\ Running /\ proc[p].pc = "docFreq"
    /\ proc[p].op \in {"CalculateQuerySimilarity", "ExtractKeywords"}
    /\ \E w \in Procs : /\ proc[w].op = "AddDocument" /\ proc[w].pc = "docFreq"
                        /\ tokenize(proc[w].text) # <<>>
    /\ crashed' = TRUE
    /\ UNCHANGED <<calc, mu, proc, chatVars>>

\* calculateIDF: math.Max(0, math.Log(float64(calc.totalDocs-df)+0.5) / ...)
IdfLog(p) ==
    /\ Running /\ proc[p].pc = "log"
    /\ proc[p].op \in {"CalculateQuerySimilarity", "ExtractKeywords"}
    /\ proc' = [proc EXCEPT ![p].pc = "idf",
                            ![p].idf = IDF(calc.totalDocs, proc[p].df)]
    /\ UNCHANGED <<calc, mu, crashed, chatVars>>

\* tf := float64(docWordFreq[word]); if tf > 0 { numerator := tf * (calc.k1 + 1)
QuerySimilarityNumerator(p) ==
    /\ At(p, "CalculateQuerySimilarity", "idf")
    /\ LET r == proc[p]
           tf == Count(r.word, tokenize(r.text))
       IN  proc' = [proc EXCEPT ![p] =
                       IF tf > 0
                       THEN [r EXCEPT !.pc = "denominator",
                                      !.numerator = Numerator(tf, calc.k1)]
                       ELSE QueryWord(r, r.i + 1, r.score)]
    /\ UNCHANGED <<calc, mu, crashed, chatVars>>

\* denominator := ...; score += idf * numerator / denominator
QuerySimilarityDenominator(p) ==
    /\ At(p, "CalculateQuerySimilarity", "denominator")
    /\ LET r == proc[p]
           docWords == tokenize(r.text)
           tf == Count(r.word, docWords)
           denominator == Denominator(tf, calc.k1, calc.b, Len(docWords), r.avgLength)
       IN  proc' = [proc EXCEPT ![p] =
                       QueryWord(r, r.i + 1,
                                 Term(r.score, r.idf, tf, r.numerator, denominator))]
    /\ UNCHANGED <<calc, mu, crashed, chatVars>>

\* x > y on float64: false when either is NaN
FGreater(x, y) ==
    /\ x.k # "nan" /\ y.k # "nan"
    /\ IF x.k = "inf" THEN x.v = 1 /\ y # x
       ELSE IF y.k = "inf" THEN y.v = -1
       ELSE x.v > y.v

\* the orders sort.Slice may leave wordScores in: no element is greater than
\* one placed before it (the sort is not stable)
Sorted(wordScores) ==
    {s \in [1..Len(wordScores) -> {wordScores[i] : i \in 1..Len(wordScores)}] :
        /\ \A i, j \in 1..Len(s) : i # j => s[i] # s[j]
        /\ \A i, j \in 1..Len(s) : i < j => ~FGreater(s[j].score, s[i].score)}

\* the range over wordFreq moves on to a word not yet scored, in any order
KeywordsWord(r) ==
    {[r EXCEPT !.pc = "totalDocs", !.word = word, !.todo = @ \ {word},
               !.df = 0, !.idf = Num(0)] : word \in r.todo}

CallExtractKeywords(p) ==
    /\ CanCall(p, "ExtractKeywords")
    /\ \E text \in Texts, topN \in 1..2 :
          LET r == [Idle EXCEPT !.op = "ExtractKeywords", !.text = text,
                                !.topN = topN, !.pc = "sort",
                                !.todo = UniqueWords(tokenize(text))]
          IN  \E next \in (IF r.todo = {} THEN {r} ELSE KeywordsWord(r)) :
                 proc' = [proc EXCEPT ![p] = next]
    /\ UNCHANGED <<calc, mu, crashed, chatVars>>

\* score := idf * tf * math.Log(float64(calc.totalDocs+1)), appended
ExtractKeywordsScore(p) ==
    /\ At(p, "ExtractKeywords", "idf")
    /\ LET r == proc[p]
           words == tokenize(r.text)
           tf == FDiv(FromInt(Count(r.word, words)), FromInt(Len(words)))
           score == FMul(FMul(r.idf, tf), Log(FromInt(calc.totalDocs + 1)))
           scored == [r EXCEPT !.pc = "sort", !.wordScores =
                         Append(@, [word |-> r.word, score |-> score])]
       IN  \E next \in (IF r.todo = {} THEN {scored} ELSE KeywordsWord(scored)) :
              proc' = [proc EXCEPT ![p] = next]
    /\ UNCHANGED <<calc, mu, crashed, chatVars>>

\* the words of the first topN elements of the sorted wordScores, for every
\* order the sort may leave
KeywordResults(wordScores, topN) ==
    {[i \in 1..(IF topN < Len(s) THEN topN ELSE Len(s)) |-> s[i].word] :
        s \in Sorted(wordScores)}

\* sort.Slice by descending score, then the first topN words
ExtractKeywordsReturn(p) ==
    /\ At(p, "ExtractKeywords", "sort")
    /\ \E keywords \in KeywordResults(proc[p].wordScores, proc[p].topN) :
          proc' = [proc EXCEPT ![p] =
                      [Return(p, keywords) EXCEPT !.topN = proc[p].topN]]
    /\ UNCHANGED <<calc, mu, crashed, chatVars>>

RECURSIVE Enumerations(_)
\* the orders in which the range over a map visits its keys
Enumerations(keys) ==
    IF keys = {} THEN {<<>>}
    ELSE UNION {{<<k>> \o rest : rest \in Enumerations(keys \ {k})} : k \in keys}

\* what ExtractKeywords can return when no mutation overlaps the call
ExtractKeywords(c, text, topN) ==
    LET words == tokenize(text)
        score(word) ==
            FMul(FMul(calculateIDF(c, word),
                      FDiv(FromInt(Count(word, words)), FromInt(Len(words)))),
                 Log(FromInt(c.totalDocs + 1)))
    IN  UNION {KeywordResults([i \in 1..Len(order) |->
                                  [word |-> order[i], score |-> score(order[i])]],
                              topN) :
               order \in Enumerations(UniqueWords(words))}

NextBM25 ==
    \E p \in Procs :
        \/ CallAddDocument(p) \/ AddDocumentLock(p) \/ AddDocumentAppend(p)
        \/ AddDocumentLength(p) \/ AddDocumentAverage(p)
        \/ AddDocumentVocabulary(p) \/ AddDocumentDocFreq(p)
        \/ AddDocumentTotalDocs(p) \/ AddDocumentReturn(p)
        \/ CallSetParameters(p) \/ SetParametersLock(p) \/ SetParametersK1(p)
        \/ SetParametersB(p) \/ SetParametersReturn(p)
        \/ CallCalculate(p) \/ CalculateRLock(p) \/ CalculateReturn(p)
        \/ CallCalculateQuerySimilarity(p) \/ QuerySimilarityAverage(p)
        \/ IdfTotalDocs(p) \/ IdfDocFreq(p) \/ ConcurrentMapAccess(p) \/ IdfLog(p)
        \/ QuerySimilarityNumerator(p) \/ QuerySimilarityDenominator(p)
        \/ CallExtractKeywords(p) \/ ExtractKeywordsScore(p)
        \/ ExtractKeywordsReturn(p)

SpecBM25 == InitBM25 /\ [][NextBM25]_vars

----------------------------------------------------------------------------
(* Properties of the BM25 calculator                                        *)

\* the statistics AddDocument and buildVocabulary maintain
Index(c) ==
    [docLengths |-> c.docLengths, totalLength |-> Sum(c.docLengths),
     avgDocLength |-> c.avgDocLength, docFreq |-> c.docFreq,
     vocabulary |-> c.vocabulary, totalDocs |-> c.totalDocs]

\* C17: whenever no mutation is in progress, the index built up by
\* NewBM25Calculator and the AddDocument calls so far equals the index
\* NewBM25Calculator builds from scratch over the same documents, and with
\* the same k1 and b every score of Calculate is the same too.
C17_IncrementalEqualsRebuild ==
    (program = "bm25" /\ mu.writer = 0)
        => LET fresh == NewBM25Calculator(calc.documents)
           IN  /\ Index(calc) = Index(fresh)
               /\ (calc.k1 = fresh.k1 /\ calc.b = fresh.b)
                     => \A q \in Queries : Calculate(calc, q) = Calculate(fresh, q)

\* C17 witness: AddDocument has added "dog dog" to a corpus of one document,
\* and Calculate scores a document above 0
C17_Witness ==
    /\ program = "bm25" /\ mu.writer = 0
    /\ proc[1].op = "AddDocument" /\ proc[1].pc = "done"
    /\ calc.documents = << <<"Cat", " dog">>, <<"dog", "dog">> >>
    /\ calc.k1 = DefaultK1
    /\ Calculate(calc, <<"cat">>)[<<"Cat", " dog">>] # Num(0)

\* p has written a field of the calculator and has more to write
Mutating(p) ==
    \/ proc[p].op = "AddDocument"
         /\ proc[p].pc \in {"docLengths", "avgDocLength", "vocabulary", "docFreq",
                            "totalDocs", "bm25Cache"}
    \/ proc[p].op = "SetParameters" /\ proc[p].pc \in {"b", "bm25Cache"}

\* p is between two of the reads a read operation makes of the calculator
Reading(p) ==
    \/ proc[p].op = "Calculate" /\ proc[p].pc = "score"
    \/ proc[p].op \in {"CalculateQuerySimilarity", "ExtractKeywords"}
         /\ proc[p].pc \in {"docFreq", "log", "denominator"}

\* C18: while AddDocument or SetParameters is modifying the calculator, no
\* read operation is reading it and no other mutation is in progress.
C18_SingleWriterMultiReader ==
    program = "bm25"
        => \A w \in Procs : Mutating(w)
              => \A q \in Procs \ {w} : ~Reading(q) /\ ~Mutating(q)

RECURSIVE Containing(_, _)
\* the number of documents whose words include word
Containing(word, documents) ==
    IF documents = <<>> THEN 0
    ELSE (IF word \in UniqueWords(tokenize(Head(documents))) THEN 1 ELSE 0)
         + Containing(word, Tail(documents))

\* the statistics agree with the corpus
Consistent(c) ==
    /\ c.totalDocs = Len(c.documents)
    /\ Len(c.docLengths) = Len(c.documents)
    /\ \A w \in Words : /\ c.docFreq[w] = Containing(w, c.documents)
                        /\ c.docFreq[w] <= c.totalDocs
    /\ Len(c.documents) > 0
          => c.avgDocLength = FDiv(FromInt(Sum(c.docLengths)), FromInt(Len(c.documents)))

\* the next step of p reads a field of the calculator
Observing(p) ==
    \/ proc[p].op = "Calculate" /\ proc[p].pc = "score"
    \/ proc[p].op = "CalculateQuerySimilarity"
         /\ proc[p].pc \in {"avgDocLength", "totalDocs", "docFreq", "log", "denominator"}
    \/ proc[p].op = "ExtractKeywords"
         /\ proc[p].pc \in {"totalDocs", "docFreq", "log", "idf"}

\* C19: in every state a read operation reads the calculator in, the
\* statistics agree with the corpus.
C19_ReadersSeeConsistentIndex ==
    program = "bm25" => \A p \in Procs : Observing(p) => Consistent(calc)

\* the document has no tokens or shares none with the query
NoSharedToken(query, document) ==
    UniqueWords(tokenize(query)) \cap UniqueWords(tokenize(document)) = {}

\* C20: every score returned by CalculateQuerySimilarity and every entry
\* returned by Calculate is 0 when the document has no tokens or shares no
\* token with the query; so is the score of every corpus document whenever
\* no mutation is in progress.
C20_ZeroWithoutSharedToken ==
    program = "bm25"
        => /\ \A p \in Procs : proc[p].pc = "done" =>
                /\ (proc[p].op = "CalculateQuerySimilarity"
                      /\ NoSharedToken(proc[p].query, proc[p].text))
                    => proc[p].ret = Num(0)
                /\ proc[p].op = "Calculate"
                    => \A doc \in DOMAIN proc[p].ret :
                          NoSharedToken(proc[p].query, doc)
                              => proc[p].ret[doc] = Num(0)
           /\ mu.writer = 0
                => \A q \in Queries : \A i \in 1..Len(calc.documents) :
                      NoSharedToken(q, calc.documents[i])
                          => calculateBM25Score(calc, tokenize(q), i) = Num(0)

\* C20 witness: with "cat" in one of two documents, so that its IDF is above
\* 0, CalculateQuerySimilarity("cat", "dog dog") has returned 0
C20_Witness ==
    /\ program = "bm25" /\ proc[2].pc = "done"
    /\ proc[2].op = "CalculateQuerySimilarity"
    /\ proc[2].query = <<"cat">> /\ proc[2].text = <<"dog", "dog">>
    /\ calc.totalDocs = 2 /\ calc.docFreq["cat"] = 1
    /\ calculateIDF(calc, "cat") # Num(0)
    /\ proc[2].ret = Num(0)

\* x >= 0 on float64: false for NaN
NonNegative(x) == (x.k = "num" /\ x.v >= 0) \/ (x.k = "inf" /\ x.v = 1)

\* C21: whenever no mutation is in progress, the score of every query against
\* every corpus document is non-negative, and so is every entry Calculate
\* has returned.
C21_ScoreNonNegative ==
    program = "bm25"
        => /\ mu.writer = 0
                => \A q \in Queries : \A i \in 1..Len(calc.documents) :
                      NonNegative(calculateBM25Score(calc, tokenize(q), i))
           /\ \A p \in Procs : (proc[p].pc = "done" /\ proc[p].op = "Calculate")
                => \A doc \in DOMAIN proc[p].ret : NonNegative(proc[p].ret[doc])

\* C22: whenever no mutation is in progress, calculateIDF yields
\* max(0, ln((N - df + 0.5) / (df + 0.5))) for every word, within two
\* thousandths; the logarithm of the quotient is the difference of the
\* logarithms.
C22_IdfIsLogOfQuotient ==
    (program = "bm25" /\ mu.writer = 0)
        => \A w \in Words :
              LET N == calc.totalDocs
                  df == IF calc.docFreq[w] = 0 THEN 1 ELSE calc.docFreq[w]
                  ofQuotient == FMax(Num(0), FSub(Log(FAdd(FromInt(N - df), Half)),
                                                  Log(FAdd(FromInt(df), Half))))
                  idf == calculateIDF(calc, w)
              IN  /\ idf.k = "num"
                  /\ Abs(idf.v - ofQuotient.v) <= 2

C25_KeywordsDeterministic ==
    program = "bm25"
        => /\ mu.writer = 0
                => \A text \in Texts : \A topN \in 1..2 :
                      Cardinality(ExtractKeywords(calc, text, topN)) = 1
           /\ \A p \in Procs :
                (proc[p].op = "ExtractKeywords" /\ proc[p].pc = "sort")
                => Cardinality(KeywordResults(proc[p].wordScores,
                                              proc[p].topN)) = 1

----------------------------------------------------------------------------
(* The history filter, as the chat session calls it                         *)

\* the budget ProcessUserInput and ProcessUserInputStream pass to the filter
HistoryBudget == 50
\* longest history LoadChatHistory returns
MaxHistory == 52

HistoryShapes == {"recent", "mixed"}

\* a loaded history of n messages, user and assistant taking turns; the
\* messages about the question are the last three ("recent") or every third
History(n, shape) ==
    [i \in 1..n |->
        LET content == IF shape = "recent"
                       THEN IF i > n - 3 THEN UserInput ELSE "hi"
                       ELSE IF i % 3 = 0 THEN UserInput
                            ELSE IF i % 3 = 1 THEN "hi" ELSE "hello"
        IN  IF i % 2 = 1 THEN UserMessage(content) ELSE AssistantMessage(content)]

\* relevance of a message to the query: cosine similarity of the embeddings
\* ("semantic") or the ranking engine's score ("lexical"), in thousandths
Relevance(strategy, query, message) ==
    IF strategy = "semantic"
    THEN CASE message.content = query -> 1000
           [] message.content = "hello" -> 600
           [] OTHER -> 200
    ELSE IF message.content = query THEN 1000 ELSE 0

RECURSIVE Choose(_, _, _)
\* the subsets of r elements of S, all above lo
Choose(S, r, lo) ==
    IF r = 0 THEN {{}}
    ELSE UNION {{{i} \cup T : T \in Choose(S, r - 1, i)} : i \in {j \in S : j > lo}}

\* the sets of d lowest-scoring positions; messages of equal score may be
\* dropped in any combination
Dropped(score, d) ==
    LET n == Len(score)
        Below(t) == {i \in 1..n : score[i] < t}
        Equal(t) == {i \in 1..n : score[i] = t}
        t == CHOOSE v \in {score[i] : i \in 1..n} :
                /\ Cardinality(Below(v)) < d
                /\ Cardinality(Below(v)) + Cardinality(Equal(v)) >= d
    IN  IF d = 0 THEN {{}}
        ELSE {Below(t) \cup T : T \in Choose(Equal(t), d - Cardinality(Below(t)), 0)}

RECURSIVE Chronological(_, _, _)
\* the messages of history at the kept positions from i on, in their order
Chronological(history, kept, i) ==
    IF i > Len(history) THEN <<>>
    ELSE (IF i \in kept THEN <<history[i]>> ELSE <<>>)
            \o Chronological(history, kept, i + 1)

\* chat.FilterRelevantHistory(ctx, embedder, history, query, budget): the
\* results it may return.  The semantic strategy is used when an embedder is
\* set and answers, the lexical one otherwise; the highest-scoring messages are
\* retained up to budget and returned in chronological order.
FilterRelevantHistory(embedder, embedFails, history, query, budget) ==
    LET strategy == IF embedder = Nil \/ embedFails THEN "lexical" ELSE "semantic"
        score == [i \in 1..Len(history) |-> Relevance(strategy, query, history[i])]
        d == IF Len(history) > budget THEN Len(history) - budget ELSE 0
    IN  {Chronological(history, (1..Len(history)) \ drop, 1) :
            drop \in Dropped(score, d)}

InitFilter ==
    /\ program = "FilterRelevantHistory"
    /\ pc = "filter" /\ lpc = "idle"
    /\ isPaused = FALSE /\ doneClosed = FALSE /\ cmdCount = 0
    /\ delivered = <<>> /\ srcState = "open" /\ recvHung = FALSE
    /\ fullContent = "" /\ closeCalls = 0 /\ deferred = 0
    /\ \E n \in 0..MaxHistory : \E shape \in HistoryShapes :
          chatHistory = History(n, shape)
    /\ ctl = [paused |-> FALSE, stopped |-> FALSE]
    /\ cache = chatHistory /\ emitted = <<>> /\ result = NoResult
    /\ loadResult = [history |-> chatHistory, err |-> "none"]
    /\ saveCalls = <<>> /\ streamCalls = 0
    /\ calc = Nil /\ mu = Nil /\ proc = Nil /\ crashed = FALSE
    /\ \E embedder \in {Nil, "OllamaEmbedder"} :
          service = [agent |-> "agent", chatCache |-> "RedisClient",
                     embedder |-> embedder, chatTemplate |-> "template"]
    /\ filteredHistory = Nil /\ verificationCodes = Nil

\* the variables the filter call leaves alone
filterFrame ==
    <<program, cliVars, srcVars, recvHung, fullContent, closeCalls, deferred,
      chatHistory, svcVars, callVars, bmVars, service, verificationCodes>>

\* the call forwards the loaded history as it is
FilterSkipped ==
    /\ program = "FilterRelevantHistory" /\ pc = "filter"
    /\ filteredHistory' = chatHistory
    /\ pc' = "format"
    /\ UNCHANGED filterFrame

\* filteredHistory := chat.FilterRelevantHistory(ctx, s.embedder, chatHistory,
\*                                               userInput, 50)
Filter ==
    /\ program = "FilterRelevantHistory" /\ pc = "filter"
    /\ \E embedFails \in BOOLEAN :
          filteredHistory' \in FilterRelevantHistory(service.embedder, embedFails,
                                                     chatHistory, UserInput,
                                                     HistoryBudget)
    /\ pc' = "format"
    /\ UNCHANGED filterFrame

NextFilter == Filter

SpecFilter == InitFilter /\ [][NextFilter]_vars

RECURSIVE IsSubsequence(_, _, _, _)
\* a[i..] can be found in b[j..], in order
IsSubsequence(a, b, i, j) ==
    IF i > Len(a) THEN TRUE
    ELSE IF j > Len(b) THEN FALSE
    ELSE IF a[i] = b[j] THEN IsSubsequence(a, b, i + 1, j + 1)
    ELSE IsSubsequence(a, b, i, j + 1)

\* the filter has returned
Filtered == program = "FilterRelevantHistory" /\ pc = "format"

----------------------------------------------------------------------------
(* chatServiceImpl.Initialize, and the turns that follow it                  *)

\* NewChatService: &chatServiceImpl{}
NewChatService ==
    [agent |-> Nil, chatCache |-> Nil, embedder |-> Nil, chatTemplate |-> Nil]

InitInitialize ==
    /\ program = "Initialize"
    /\ pc = "CreateAgent" /\ lpc = "idle"
    /\ isPaused = FALSE /\ doneClosed = FALSE /\ cmdCount = 0
    /\ delivered = <<>> /\ srcState = "open" /\ recvHung = FALSE
    /\ fullContent = "" /\ closeCalls = 0 /\ deferred = 0
    /\ chatHistory = <<>> /\ ctl = [paused |-> FALSE, stopped |-> FALSE]
    /\ cache = <<>> /\ emitted = <<>> /\ result = NoResult
    /\ loadResult = NoLoad /\ saveCalls = <<>> /\ streamCalls = 0
    /\ calc = Nil /\ mu = Nil /\ crashed = FALSE
    \* the goroutine that calls Initialize: the constructors that have failed
    \* and the error Initialize returns
    /\ proc = [op |-> "Initialize", failed |-> {}, err |-> Nil]
    /\ service = NewChatService
    /\ filteredHistory = Nil /\ verificationCodes = Nil

\* the variables Initialize leaves alone
initFrame ==
    <<program, cliVars, srcVars, recvHung, fullContent, closeCalls, deferred,
      chatHistory, svcVars, callVars, calc, mu, crashed, filteredHistory,
      verificationCodes>>

Initializing(at) == program = "Initialize" /\ pc = at

\* the constructor named by the position has failed
Failed == [proc EXCEPT !.failed = @ \cup {pc}]

\* s.agent, err = model.CreateAgent(ctx); if err != nil { return err }
InitializeCreateAgent ==
    /\ Initializing("CreateAgent")
    /\ \E ok \in BOOLEAN :
          IF ok
          THEN /\ service' = [service EXCEPT !.agent = "agent"]
               /\ pc' = "NewRedisClient"
               /\ UNCHANGED proc
          ELSE /\ proc' = [Failed EXCEPT !.err = "CreateAgent"]
               /\ pc' = "returned"
               /\ UNCHANGED service
    /\ UNCHANGED initFrame

\* a mutation of the cache set-up: the Redis error is returned to the caller
InitializeCacheFatal ==
    /\ Initializing("NewRedisClient")
    /\ \E ok \in BOOLEAN :
          IF ok
          THEN /\ service' = [service EXCEPT !.chatCache = "RedisClient"]
               /\ pc' = "NewOllamaEmbedder"
               /\ UNCHANGED proc
          ELSE /\ proc' = [Failed EXCEPT !.err = "NewRedisClient"]
               /\ pc' = "returned"
               /\ UNCHANGED service
    /\ UNCHANGED initFrame

\* s.chatCache, err = cache.NewRedisClient(ctx);
\* if err != nil { s.chatCache = cache.NewInMemoryCache() }
InitializeCache ==
    /\ Initializing("NewRedisClient")
    /\ \E ok \in BOOLEAN :
          /\ service' = [service EXCEPT !.chatCache =
                            IF ok THEN "RedisClient" ELSE "InMemoryCache"]
          /\ proc' = IF ok THEN proc ELSE Failed
    /\ pc' = "NewOllamaEmbedder"
    /\ UNCHANGED initFrame

\* s.embedder, err = model.NewOllamaEmbedder(ctx); if err != nil { s.embedder = nil }
InitializeEmbedder ==
    /\ Initializing("NewOllamaEmbedder")
    /\ \E ok \in BOOLEAN :
          /\ service' = [service EXCEPT !.embedder =
                            IF ok THEN "OllamaEmbedder" ELSE Nil]
          /\ proc' = IF ok THEN proc ELSE Failed
    /\ pc' = "CreateTemplate"
    /\ UNCHANGED initFrame

\* s.chatTemplate = template.CreateTemplate(); return nil
InitializeReturn ==
    /\ Initializing("CreateTemplate")
    /\ service' = [service EXCEPT !.chatTemplate = "template"]
    /\ pc' = "returned"
    /\ UNCHANGED <<proc, initFrame>>

\* what s.chatCache holds for userID when the first turn begins: a new
\* in-memory cache is empty
StoredHistories ==
    IF service.chatCache = "InMemoryCache" THEN {<<>>} ELSE InitHistories

\* Initialize has returned nil and the caller begins a turn
BeginTurn ==
    /\ Initializing("returned") /\ proc.err = Nil
    /\ program' \in {"ProcessUserInput", "ProcessUserInputStream"}
    /\ pc' = "load"
    /\ cache' \in StoredHistories
    /\ UNCHANGED <<bmVars, ownVars, cliVars, srcVars, recvHung, fullContent,
                   closeCalls, deferred, chatHistory, ctl, emitted, result,
                   callVars>>

NextInitialize ==
    \/ InitializeCreateAgent \/ InitializeCache \/ InitializeEmbedder
    \/ InitializeReturn \/ BeginTurn
    \/ SvcNext

SpecInitialize == InitInitialize /\ [][NextInitialize]_vars

\* Initialize has returned
Initialized == ~(program = "Initialize" /\ pc # "returned")

\* C27: once Initialize has returned, a failed Redis constructor has left the
\* in-memory cache installed and a failed embedder constructor has left the
\* embedder nil; the error returned is nil unless CreateAgent failed, and only
\* after a nil return does a turn run.
C27_InitializeFallsBack ==
    /\ Initialized
          => /\ "NewRedisClient" \in proc.failed
                    => service.chatCache = "InMemoryCache"
             /\ "NewOllamaEmbedder" \in proc.failed => service.embedder = Nil
             /\ proc.err # Nil <=> "CreateAgent" \in proc.failed
    /\ IsService => proc.err = Nil /\ service.agent # Nil /\ service.chatCache # Nil

\* a turn has run to its end on the in-memory cache and without an embedder
C27_Witness ==
    /\ IsService /\ pc = "returned"
    /\ proc.failed = {"NewRedisClient", "NewOllamaEmbedder"}
    /\ service.chatCache = "InMemoryCache" /\ service.embedder = Nil
    /\ result.text = "Hello world" /\ result.err = Nil
    /\ Len(saveCalls) = 1 /\ saveCalls[1].ok

----------------------------------------------------------------------------
(* Tool calls in ProcessUserInputStream                                     *)

\* Recv has returned an increment and the turn goes on
Received ==
    /\ program = "ProcessUserInputStream"
    /\ Len(delivered') = Len(delivered) + 1
    /\ pc' # "returned"

\* C28: whenever ProcessUserInputStream has handled a received increment, the
\* accumulated text has grown by the increment's content (next to whatever
\* is written for its tool calls), and every tool call has been handed to
\* streamCallback with isToolCall = true.
C28_ContentKeptBesideToolCalls ==
    [][Received =>
         LET inc == delivered'[Len(delivered')]
             toolText == ToolText(inc.tools, Len(inc.tools))
         IN  /\ fullContent' \in {fullContent \o inc.content,
                                  fullContent \o toolText \o inc.content,
                                  fullContent \o inc.content \o toolText}
             /\ Len(inc.tools) > 0
                   => emitted' = emitted \o ToolEmits(inc.tools, Len(inc.tools))]_vars

----------------------------------------------------------------------------
(* Two turns for one userID at the same time                                *)

\* what the two callers ask
Questions == [p \in Procs |-> IF p = 1 THEN "question" ELSE "hi"]
\* what the agent may answer
Replies == {"Hello", "Hello world"}

\* a caller before its call: the method, its position and its locals
NoTurn ==
    [op |-> "none", pc |-> "idle", userInput |-> "", chatHistory |-> <<>>,
     fullContent |-> "", err |-> Nil, saved |-> FALSE]

InitTurns ==
    /\ program = "turns"
    /\ pc = "none" /\ lpc = "idle"
    /\ isPaused = FALSE /\ doneClosed = FALSE /\ cmdCount = 0
    /\ delivered = <<>> /\ srcState = "open" /\ recvHung = FALSE
    /\ fullContent = "" /\ closeCalls = 0 /\ deferred = 0
    /\ chatHistory = <<>> /\ ctl = [paused |-> FALSE, stopped |-> FALSE]
    /\ cache \in InitHistories
    /\ emitted = <<>> /\ result = NoResult
    /\ loadResult = NoLoad /\ saveCalls = <<>> /\ streamCalls = 0
    /\ calc = Nil /\ mu = Nil /\ crashed = FALSE
    /\ proc = [p \in Procs |-> NoTurn]
    /\ service = [agent |-> "agent", chatCache |-> "RedisClient",
                  embedder |-> Nil, chatTemplate |-> "template"]
    /\ filteredHistory = Nil /\ verificationCodes = Nil

\* the variables a turn of one of the callers leaves alone
turnFrame ==
    <<program, pc, cliVars, srcVars, recvHung, fullContent, closeCalls, deferred,
      chatHistory, ctl, emitted, result, loadResult, streamCalls, calc, mu,
      crashed, ownVars>>

TurnAt(p, at) == program = "turns" /\ proc[p].pc = at

\* ProcessUserInput(ctx, userInput, userID) or ProcessUserInputStream is called
CallTurn(p) ==
    /\ TurnAt(p, "idle")
    /\ \E op \in {"ProcessUserInput", "ProcessUserInputStream"} :
          proc' = [proc EXCEPT ![p] =
                      [NoTurn EXCEPT !.op = op, !.pc = "load",
                                     !.userInput = Questions[p]]]
    /\ UNCHANGED <<cache, saveCalls, turnFrame>>

\* chatHistory, err := s.chatCache.LoadChatHistory(ctx, userID); an error
\* leaves the history empty
TurnLoad(p) ==
    /\ TurnAt(p, "load")
    /\ \E ok \in BOOLEAN :
          proc' = [proc EXCEPT ![p].chatHistory = IF ok THEN cache ELSE <<>>,
                               ![p].pc = "generate"]
    /\ UNCHANGED <<cache, saveCalls, turnFrame>>

\* filter, format, stream and the receive loop: the accumulated reply, or an
\* error that returns before the history is updated
TurnGenerate(p) ==
    /\ TurnAt(p, "generate")
    /\ \/ \E reply \in Replies :
             proc' = [proc EXCEPT ![p].fullContent = reply, ![p].pc = "update"]
       \/ proc' = [proc EXCEPT ![p].err = "stream", ![p].pc = "returned"]
    /\ UNCHANGED <<cache, saveCalls, turnFrame>>

\* chatHistory = append(chatHistory, user, assistant); SaveChatHistory: return
TurnSave(p) ==
    /\ TurnAt(p, "update")
    /\ LET history == proc[p].chatHistory \o
                         <<UserMessage(proc[p].userInput),
                           AssistantMessage(proc[p].fullContent)>>
       IN  \E ok \in BOOLEAN :
              /\ saveCalls' = Append(saveCalls, [history |-> history, ok |-> ok])
              /\ cache' = IF ok THEN history ELSE cache
              /\ proc' = [proc EXCEPT ![p].chatHistory = history,
                                      ![p].saved = ok, ![p].pc = "returned"]
    /\ UNCHANGED turnFrame

NextTurns ==
    \E p \in Procs : CallTurn(p) \/ TurnLoad(p) \/ TurnGenerate(p) \/ TurnSave(p)

SpecTurns == InitTurns /\ [][NextTurns]_vars

\* the user and assistant messages of the turn of p are stored, one after
\* the other
TurnStored(p) ==
    \E i \in 1..(Len(cache) - 1) :
        /\ cache[i] = UserMessage(proc[p].userInput)
        /\ cache[i + 1] = AssistantMessage(proc[p].fullContent)

\* C29: when both callers have returned and both saves succeeded, the stored
\* history holds the messages of both turns.
C29_NoTurnLost ==
    (program = "turns" /\ \A p \in Procs : proc[p].pc = "returned" /\ proc[p].saved)
        => \A p \in Procs : TurnStored(p)

----------------------------------------------------------------------------
(* EmailService.VerifyCode (services/email/email_service.go)                *)

\* most verification code records created
MaxCodes == 2

Emails == {"user@weave.io"}
Codes == {"123456", "654321"}
Tenants == {1, 2}

\* a row as its creator saves it: CreatedAt is its place in the table, Used is
\* false, ExpiresAt lies in the future; accepted counts the VerifyCode calls
\* that have returned true for the row
NewVerificationCode(email, code, tenantID) ==
    [email |-> email, code |-> code, tenantID |-> tenantID, used |-> FALSE,
     expired |-> FALSE, accepted |-> 0]

\* a goroutine before its call
NoCall ==
    [op |-> "none", pc |-> "idle", email |-> "", code |-> "", tenantID |-> 0,
     id |-> 0, ok |-> FALSE, err |-> Nil]

InitEmail ==
    /\ program = "email"
    /\ pc = "none" /\ lpc = "idle"
    /\ isPaused = FALSE /\ doneClosed = FALSE /\ cmdCount = 0
    /\ delivered = <<>> /\ srcState = "open" /\ recvHung = FALSE
    /\ fullContent = "" /\ closeCalls = 0 /\ deferred = 0
    /\ chatHistory = <<>> /\ ctl = [paused |-> FALSE, stopped |-> FALSE]
    /\ cache = <<>> /\ emitted = <<>> /\ result = NoResult
    /\ loadResult = NoLoad /\ saveCalls = <<>> /\ streamCalls = 0
    /\ calc = Nil /\ mu = Nil /\ crashed = FALSE
    /\ proc = [p \in Procs |-> NoCall]
    /\ service = Nil /\ filteredHistory = Nil
    /\ verificationCodes = <<>>

\* the variables the email service leaves alone
emailRest ==
    <<program, pc, cliVars, srcVars, recvHung, fullContent, closeCalls, deferred,
      chatHistory, svcVars, callVars, calc, mu, crashed, service, filteredHistory>>

VerifyAt(p, at) == program = "email" /\ proc[p].pc = at

\* CreateVerificationCode, and its caller storing the record
CreateVerificationCode ==
    /\ program = "email" /\ Len(verificationCodes) < MaxCodes
    /\ \E email \in Emails : \E code \in Codes : \E tenantID \in Tenants :
          verificationCodes' =
              Append(verificationCodes, NewVerificationCode(email, code, tenantID))
    /\ UNCHANGED <<proc, emailRest>>

\* time passes beyond the ExpiresAt of a row
Expire ==
    /\ program = "email"
    /\ \E id \in 1..Len(verificationCodes) :
          /\ ~verificationCodes[id].expired
          /\ verificationCodes' = [verificationCodes EXCEPT ![id].expired = TRUE]
    /\ UNCHANGED <<proc, emailRest>>

\* VerifyCode(email, code, tenantID) is called
CallVerifyCode(p) ==
    /\ program = "email" /\ proc[p].pc \in {"idle", "done"}
    /\ \E email \in Emails : \E code \in Codes : \E tenantID \in Tenants :
          proc' = [proc EXCEPT ![p] =
                      [NoCall EXCEPT !.op = "VerifyCode", !.pc = "First",
                                     !.email = email, !.code = code,
                                     !.tenantID = tenantID]]
    /\ UNCHANGED <<verificationCodes, emailRest>>

\* the rows the Where clause selects
Matching(email, code, tenantID) ==
    {id \in 1..Len(verificationCodes) :
        /\ verificationCodes[id].email = email
        /\ verificationCodes[id].code = code
        /\ ~verificationCodes[id].used
        /\ ~verificationCodes[id].expired
        /\ verificationCodes[id].tenantID = tenantID}

\* Order("created_at DESC").First: the newest of the rows
Newest(ids) == CHOOSE id \in ids : \A other \in ids : other <= id

\* the query of lines 150-151; no row or a failed query returns false, err
VerifyCodeFirst(p) ==
    /\ VerifyAt(p, "First")
    /\ LET ids == Matching(proc[p].email, proc[p].code, proc[p].tenantID)
       IN  \E dbOk \in BOOLEAN :
              proc' = [proc EXCEPT ![p] =
                          IF dbOk /\ ids # {}
                          THEN [@ EXCEPT !.id = Newest(ids), !.pc = "Save"]
                          ELSE [@ EXCEPT !.err = IF dbOk THEN "ErrRecordNotFound"
                                                 ELSE "db",
                                         !.pc = "done"]]
    /\ UNCHANGED <<verificationCodes, emailRest>>

\* verificationCode.Used = true; pkg.DB.Save(&verificationCode); return true, nil
\* (a failed Save returns false, err)
VerifyCodeSave(p) ==
    /\ VerifyAt(p, "Save")
    /\ \E dbOk \in BOOLEAN :
          /\ verificationCodes' =
                IF dbOk
                THEN [verificationCodes EXCEPT ![proc[p].id].used = TRUE,
                                               ![proc[p].id].accepted = @ + 1]
                ELSE verificationCodes
          /\ proc' = [proc EXCEPT ![p].ok = dbOk,
                                  ![p].err = IF dbOk THEN Nil ELSE "db",
                                  ![p].pc = "done"]
    /\ UNCHANGED emailRest

NextEmail ==
    \/ CreateVerificationCode
    \/ Expire
    \/ \E p \in Procs : CallVerifyCode(p) \/ VerifyCodeFirst(p) \/ VerifyCodeSave(p)

SpecEmail == InitEmail /\ [][NextEmail]_vars

\* C30: for every stored code record at most one VerifyCode call has returned
\* true.
C30_CodeSingleUse ==
    program = "email"
        => \A id \in 1..Len(verificationCodes) : verificationCodes[id].accepted <= 1

\* the row a call has looked up has the call's email, code and tenant
RowOfCall(p) ==
    LET row == verificationCodes[proc[p].id]
    IN  /\ row.email = proc[p].email
        /\ row.code = proc[p].code
        /\ row.tenantID = proc[p].tenantID

\* C31: a VerifyCode call goes on to mark a row only if, at its query, the row
\* matches its email, code and tenant, is unused and is not expired; it
\* returns true only for a matching row that is still unused; and a call that
\* returns false returns an error and leaves every stored row as it was.
C31_TrueOnlyForValidRecord ==
    [][program = "email"
         => \A p \in Procs :
               /\ (proc[p].pc = "First" /\ proc'[p].pc = "Save")
                     => proc'[p].id \in Matching(proc[p].email, proc[p].code,
                                                 proc[p].tenantID)
               /\ (proc[p].pc = "Save" /\ proc'[p].pc = "done" /\ proc'[p].ok)
                     => RowOfCall(p) /\ ~verificationCodes[proc[p].id].used
               /\ (proc[p].pc \in {"First", "Save"} /\ proc'[p].pc = "done"
                      /\ ~proc'[p].ok)
                     => /\ proc'[p].err # Nil
                        /\ verificationCodes' = verificationCodes]_vars

----------------------------------------------------------------------------
(* Scoring a corpus document as an ad-hoc text                              *)

\* no mutation is in progress and the average document length is positive
IndexWithPositiveAverage ==
    /\ program = "bm25" /\ mu.writer = 0
    /\ calc.avgDocLength.k = "num" /\ calc.avgDocLength.v > 0

\* C32: in every index state with a positive average length, for every
\* query and every document d of the corpus, CalculateQuerySimilarity(query,
\* d) is the entry of d in Calculate(query).
C32_AdHocAgreesWithIndexed ==
    IndexWithPositiveAverage
        => \A query \in Queries : \A i \in 1..Len(calc.documents) :
              CalculateQuerySimilarity(calc, query, calc.documents[i])
                  = Calculate(calc, query)[calc.documents[i]]

\* a corpus document whose length is not the average has a score other than
\* zero for some query, by both methods
C32_Witness ==
    /\ IndexWithPositiveAverage
    /\ \E query \in Queries : \E i \in 1..Len(calc.documents) :
          LET d == calc.documents[i]
          IN  /\ FromInt(Len(tokenize(d))) # calc.avgDocLength
              /\ Calculate(calc, query)[d] # Num(0)
              /\ CalculateQuerySimilarity(calc, query, d) = Calculate(calc, query)[d]

====
